---- MODULE Spec2Model ----
(***************************************************************************)
(* Model of the AI-overview search server of src/main.go: the handler for  *)
(* "/", fetchAIOverview with its two external calls, and the html/template *)
(* page produced by tmpl.                                                  *)
(*                                                                         *)
(* Text is a sequence of one-character strings, so that HTML escaping,     *)
(* strings.Title and the decimal formatting of an int are computed and not *)
(* taken to be the identity.                                               *)
(***************************************************************************)
EXTENDS Integers, Sequences, FiniteSets, TLC

\* ------------------------------------------------------------- bounds ----
\* Number of requests the server handles concurrently in SpecServer.
NumReqs == 2
\* Longest text_blocks / references sequence handed to the renderer in SpecRender.
MaxBlocks == 2
MaxRefs == 3

Reqs == 1..NumReqs

\* ----------------------------------------------------------- go values ---
\* A nil error, and the error messages fetchAIOverview can return.
NilErr == "<nil>"
ErrNotFound == "ai overview not found"
ErrUnmarshal == "json: cannot unmarshal"
TransportErrs == {"transport failure", "serpapi: invalid api key"}

\* AIOverview (the zero value is what a JSON null or {} decodes to).
ZeroOverview == [TextBlocks |-> <<>>, References |-> <<>>, Error |-> ""]

\* *AIOverview: nil or a pointer to a value.
NilPtr == [isNil |-> TRUE, val |-> ZeroOverview]
PtrTo(o) == [isNil |-> FALSE, val |-> o]

\* AIOverview.IsEmpty
\* Fault variant: || in place of &&.
IsEmptyMutOr(a) == Len(a.TextBlocks) = 0 \/ Len(a.References) = 0
IsEmpty(a) == Len(a.TextBlocks) = 0 /\ Len(a.References) = 0

\* ------------------------------------------------------ sample content ---
Block1 == [Type |-> <<"l", "i", "s", "t">>, Snippet |-> <<>>,
           List |-> << [Title |-> <<"t">>, Snippet |-> <<"x", "&", "y">>] >>]
Block2 == [Type |-> <<"a", " ", "b">>, Snippet |-> <<"h", "<", "i">>, List |-> <<>>]
BlockVals == {Block1, Block2}

Ref1 == [Title |-> <<"A">>, Link |-> <<"h", "t", "t", "p", "s", ":", "/", "e">>,
         Snippet |-> <<"s">>, Source |-> <<"w">>, Index |-> 1]
Ref2 == [Title |-> <<"<", "b">>, Link |-> <<"j", "s", ":", "x">>,
         Snippet |-> <<"x", "&", "y">>, Source |-> <<>>, Index |-> 0]
Ref3 == [Title |-> <<"c">>, Link |-> <<"/", "p", "&", "q", " ", "r">>,
         Snippet |-> <<>>, Source |-> <<"w">>, Index |-> 12]
RefVals == {Ref1, Ref2, Ref3}

SeqsUpTo(S, n) == UNION {[1..k -> S] : k \in 0..n}

Queries == {<<>>, <<"c", "a", "t">>, <<"a", "<", "b">>}

\* ----------------------------------------------- the API's JSON payload --
\* The value under "ai_overview": a JSON object, null, or a value of another
\* shape (string, number, array).  Each key json.Unmarshal looks at is
\* [ok, v]: ok = FALSE when the JSON value has the wrong type for the Go
\* field; an absent key is ok with the zero value.
Field(ok, v) == [ok |-> ok, v |-> v]
Object(tb, refs, er, tok, lnk) ==
    [shape |-> "object", text_blocks |-> tb, references |-> refs, error |-> er,
     page_token |-> tok, serpapi_link |-> lnk]
JSONNull == [Object(Field(TRUE, <<>>), Field(TRUE, <<>>), Field(TRUE, ""),
                    Field(TRUE, ""), Field(TRUE, "")) EXCEPT !.shape = "null"]
JSONOther == [JSONNull EXCEPT !.shape = "other"]

\* json.Unmarshal(jsonBytes, &overview): a type mismatch is reported and the
\* fields that do fit are still filled in.
DecodeOverview(p) ==
    IF p.shape = "null" THEN [val |-> ZeroOverview, err |-> NilErr]
    ELSE IF p.shape = "other" THEN [val |-> ZeroOverview, err |-> ErrUnmarshal]
    ELSE [val |-> [TextBlocks |-> IF p.text_blocks.ok THEN p.text_blocks.v ELSE <<>>,
                   References |-> IF p.references.ok THEN p.references.v ELSE <<>>,
                   Error |-> IF p.error.ok THEN p.error.v ELSE ""],
          err |-> IF p.text_blocks.ok /\ p.references.ok /\ p.error.ok
                  THEN NilErr ELSE ErrUnmarshal]

\* json.Unmarshal(jsonBytes, &meta) into SearchMetadata.
DecodeMeta(p) ==
    IF p.shape = "null" THEN [val |-> [PageToken |-> "", SerpapiLink |-> ""], err |-> NilErr]
    ELSE IF p.shape = "other"
    THEN [val |-> [PageToken |-> "", SerpapiLink |-> ""], err |-> ErrUnmarshal]
    ELSE [val |-> [PageToken |-> IF p.page_token.ok THEN p.page_token.v ELSE "",
                   SerpapiLink |-> IF p.serpapi_link.ok THEN p.serpapi_link.v ELSE ""],
          err |-> IF p.page_token.ok /\ p.serpapi_link.ok THEN NilErr ELSE ErrUnmarshal]

\* What search.GetJSON() returns: an error, or a map that may hold "ai_overview".
\* results["ai_overview"] of a map without the key is nil, which marshals to null.
CallFailed(e) == [err |-> e, hasKey |-> FALSE, raw |-> JSONNull]
NoKey == [err |-> NilErr, hasKey |-> FALSE, raw |-> JSONNull]
WithKey(p) == [err |-> NilErr, hasKey |-> TRUE, raw |-> p]
NoReply == [err |-> "no reply yet", hasKey |-> FALSE, raw |-> JSONNull]

\* The external calls: NewGoogleSearch parameters.
PrimaryCall(q) == [engine |-> "google", q |-> q, page_token |-> "",
                   location |-> "Indonesia", google_domain |-> "google.com",
                   gl |-> "id", hl |-> "id"]
SecondaryCall(tok) == [engine |-> "google_ai_overview", q |-> <<>>, page_token |-> tok,
                       location |-> "", google_domain |-> "", gl |-> "id", hl |-> "id"]

\* ------------------------------------------------------- html/template ---
Lower == <<"a", "b", "c", "d", "e", "f", "g", "h", "i", "j", "k", "l", "m",
           "n", "o", "p", "q", "r", "s", "t", "u", "v", "w", "x", "y", "z">>
Upper == <<"A", "B", "C", "D", "E", "F", "G", "H", "I", "J", "K", "L", "M",
           "N", "O", "P", "Q", "R", "S", "T", "U", "V", "W", "X", "Y", "Z">>
DigitChars == <<"0", "1", "2", "3", "4", "5", "6", "7", "8", "9">>
Range(s) == {s[k] : k \in 1..Len(s)}
IndexIn(c, s) == CHOOSE k \in 1..Len(s) : s[k] = c

RECURSIVE Flatten(_)
Flatten(ss) == IF ss = <<>> THEN <<>> ELSE Head(ss) \o Flatten(Tail(ss))

\* The replacement table of html/template's text and attribute escapers.
EscapeChar(c) ==
    CASE c = "<" -> <<"&", "l", "t", ";">>
      [] c = ">" -> <<"&", "g", "t", ";">>
      [] c = "&" -> <<"&", "a", "m", "p", ";">>
      [] c = "\"" -> <<"&", "#", "3", "4", ";">>
      [] c = "'" -> <<"&", "#", "3", "9", ";">>
      [] OTHER -> <<c>>
HTMLEscape(s) == Flatten([k \in 1..Len(s) |-> EscapeChar(s[k])])

\* What a browser shows for escaped text: character references decoded.
Entities == {"<", ">", "&", "\"", "'"}
StartsWith(s, pre) == Len(s) >= Len(pre) /\ SubSeq(s, 1, Len(pre)) = pre
RECURSIVE Unescape(_)
Unescape(s) ==
    IF s = <<>> THEN <<>>
    ELSE IF \E c \in Entities : StartsWith(s, EscapeChar(c))
    THEN LET c == CHOOSE x \in Entities : StartsWith(s, EscapeChar(x))
         IN  <<c>> \o Unescape(SubSeq(s, Len(EscapeChar(c)) + 1, Len(s)))
    ELSE <<Head(s)>> \o Unescape(Tail(s))

\* strings.Title: the first letter of every word in upper case; a word starts
\* after any character that is not a letter, a digit or an underscore.
IsWordChar(c) == c \in Range(Lower) \cup Range(Upper) \cup Range(DigitChars) \cup {"_"}
ToUpper(c) == IF c \in Range(Lower) THEN Upper[IndexIn(c, Lower)] ELSE c
Title(s) == [k \in 1..Len(s) |->
                IF k = 1 \/ ~IsWordChar(s[k - 1]) THEN ToUpper(s[k]) ELSE s[k]]

\* An int printed by the template, in decimal.
RECURSIVE FormatNat(_)
FormatNat(n) == IF n < 10 THEN <<DigitChars[n + 1]>>
                ELSE FormatNat(n \div 10) \o <<DigitChars[(n % 10) + 1]>>
FormatInt(n) == IF n < 0 THEN <<"-">> \o FormatNat(-n) ELSE FormatNat(n)

\* html/template's filter for a URL placed in href: a URL with a scheme other
\* than http, https or mailto is replaced by "#ZgotmplZ".
ZgotmplZ == <<"#", "Z", "g", "o", "t", "m", "p", "l", "Z">>
SafeSchemes == {<<"h", "t", "t", "p">>, <<"h", "t", "t", "p", "s">>,
                <<"m", "a", "i", "l", "t", "o">>}
HasScheme(u) == \E k \in 1..Len(u) : u[k] = ":" /\ \A j \in 1..(k - 1) : u[j] \notin {":", "/"}
SchemeOf(u) == SubSeq(u, 1, (CHOOSE k \in 1..Len(u) : u[k] = ":" /\ \A j \in 1..(k - 1) : u[j] # ":") - 1)
ToLower(c) == IF c \in Range(Upper) THEN Lower[IndexIn(c, Upper)] ELSE c
IsSafeURL(u) ==
    HasScheme(u) => [k \in 1..Len(SchemeOf(u)) |-> ToLower(SchemeOf(u)[k])] \in SafeSchemes
URLFilter(u) == IF IsSafeURL(u) THEN u ELSE ZgotmplZ
\* html/template's URL normalizer: percent-encodes what may not stand in a URL.
NormalizeChar(c) ==
    CASE c = " " -> <<"%", "2", "0">>
      [] c = "<" -> <<"%", "3", "c">>
      [] c = ">" -> <<"%", "3", "e">>
      [] c = "\"" -> <<"%", "2", "2">>
      [] OTHER -> <<c>>
URLNormalize(u) == Flatten([k \in 1..Len(u) |-> NormalizeChar(u[k])])
HrefEscape(u) == HTMLEscape(URLNormalize(URLFilter(u)))

\* A node of the rendered document: element, class, the template's own text,
\* the escaped substituted text, the escaped href, and the child nodes.
Node(el, class, lit, text, href, kids) ==
    [el |-> el, class |-> class, lit |-> lit, text |-> text, href |-> href, kids |-> kids]

\* tmpl, lines 68-72: the heading and the form pre-filled with the query.
PageHead(query) ==
    << Node("h1", "", "Google AI Overview via SerpAPI", <<>>, <<>>, <<>>),
       Node("form", "", "q", HTMLEscape(query), <<>>, <<>>) >>

\* tmpl, lines 81-83: one list item.
RenderItem(it) ==
    Node("li", "", " - ", HTMLEscape(it.Snippet), <<>>,
         << Node("strong", "", "", HTMLEscape(it.Title), <<>>, <<>>) >>)

\* tmpl, lines 76-86: one text block.
RenderBlock(b) ==
    Node("div", "text-block", "", <<>>, <<>>,
         << Node("strong", "", "", HTMLEscape(Title(b.Type)), <<>>, <<>>),
            Node("p", "", "", HTMLEscape(b.Snippet), <<>>, <<>>) >>
         \o (IF Len(b.List) > 0
             THEN << Node("ul", "", "", <<>>, <<>>,
                          [k \in 1..Len(b.List) |-> RenderItem(b.List[k])]) >>
             ELSE <<>>))

\* tmpl, lines 90-95: one reference.
\* Fault variant: source printed before snippet.
RenderRefMutOrder(r) ==
    Node("div", "text-block", "", <<>>, <<>>,
         << Node("strong", "", "title: ", <<>>, <<>>,
                 << Node("a", "", "", HTMLEscape(r.Title), HrefEscape(r.Link), <<>>) >>),
            Node("p", "", "Source: ", HTMLEscape(r.Source), <<>>, <<>>),
            Node("p", "", "Snippet: ", HTMLEscape(r.Snippet), <<>>, <<>>),
            Node("p", "", "Index: ", FormatInt(r.Index), <<>>, <<>>) >>)
RenderRef(r) ==
    Node("div", "text-block", "", <<>>, <<>>,
         << Node("strong", "", "title: ", <<>>, <<>>,
                 << Node("a", "", "", HTMLEscape(r.Title), HrefEscape(r.Link), <<>>) >>),
            Node("p", "", "Snippet: ", HTMLEscape(r.Snippet), <<>>, <<>>),
            Node("p", "", "Source: ", HTMLEscape(r.Source), <<>>, <<>>),
            Node("p", "", "Index: ", FormatInt(r.Index), <<>>, <<>>) >>)

ResultHeading == Node("h2", "", "AI Overview Result", <<>>, <<>>, <<>>)
RefsHeading == Node("h2", "", "References", <<>>, <<>>, <<>>)
NoResult(query) ==
    Node("p", "", "", <<>>, <<>>,
         << Node("em", "", "No AI Overview found for: ", HTMLEscape(query), <<>>, <<>>) >>)

\* Fault variant: {{else}} in place of {{else if .Query}}.
RenderPageMutElse(query, ai) ==
    PageHead(query)
    \o (IF ~ai.isNil
        THEN <<ResultHeading>>
             \o [k \in 1..Len(ai.val.TextBlocks) |-> RenderBlock(ai.val.TextBlocks[k])]
             \o <<RefsHeading>>
             \o [k \in 1..Len(ai.val.References) |-> RenderRef(ai.val.References[k])]
        ELSE <<NoResult(query)>>)

\* tmpl executed on data = {Query, AI}: {{if .AI}} is true of a non-nil
\* pointer, {{else if .Query}} of a non-empty string.
RenderPage(query, ai) ==
    PageHead(query)
    \o (IF ~ai.isNil
        THEN <<ResultHeading>>
             \o [k \in 1..Len(ai.val.TextBlocks) |-> RenderBlock(ai.val.TextBlocks[k])]
             \o <<RefsHeading>>
             \o [k \in 1..Len(ai.val.References) |-> RenderRef(ai.val.References[k])]
        ELSE IF query # <<>> THEN <<NoResult(query)>> ELSE <<>>)

ErrorPage == << Node("#text", "", "Error rendering page", <<>>, <<>>, <<>>) >>
NoPage == <<>>

\* ------------------------------------------------------ the API's answers -
TextBlocksFields == {Field(TRUE, <<>>), Field(TRUE, <<Block1, Block2>>), Field(FALSE, <<>>)}
ReferencesFields == {Field(TRUE, <<>>), Field(TRUE, <<Ref1>>), Field(FALSE, <<>>)}
ErrorFields == {Field(TRUE, ""), Field(FALSE, "")}
PageTokenFields == {Field(TRUE, ""), Field(TRUE, "tok1"), Field(FALSE, "")}
SerpapiLinkFields == {Field(TRUE, "https://serpapi.com/search.json"), Field(FALSE, "")}
Payloads ==
    {JSONNull, JSONOther}
    \cup {Object(tb, refs, er, tok, lnk) :
            tb \in TextBlocksFields, refs \in ReferencesFields, er \in ErrorFields,
            tok \in PageTokenFields, lnk \in SerpapiLinkFields}
Results == {CallFailed(e) : e \in TransportErrs} \cup {NoKey} \cup {WithKey(p) : p \in Payloads}

\* The answers used where several requests are in flight at once.
InlinePayload == Object(Field(TRUE, <<Block2>>), Field(TRUE, <<Ref1>>), Field(TRUE, ""),
                        Field(TRUE, ""), Field(TRUE, ""))
TokenPayload == Object(Field(TRUE, <<>>), Field(TRUE, <<>>), Field(TRUE, ""),
                       Field(TRUE, "tok1"), Field(TRUE, ""))
ServerResults == {CallFailed("transport failure"), NoKey, WithKey(InlinePayload),
                  WithKey(TokenPayload), WithKey(JSONOther)}
ServerQueries == {<<>>, <<"c", "a", "t">>}

\* ------------------------------------------------------------- state -----
VARIABLES
    serverUp,   \* the process is running and listening (ListenAndServe has not returned)
    pc,         \* per request: where its handler goroutine stands
    query,      \* per request: r.URL.Query().Get("q")
    dataAI,     \* per request: data.AI
    calls,      \* per request: the external calls issued so far, in order
    in1,        \* per request: what the primary GetJSON returned
    in2,        \* per request: what the secondary GetJSON returned
    retAI,      \* per request: the *AIOverview fetchAIOverview returned
    retErr,     \* per request: the error fetchAIOverview returned
    wrote,      \* per request: whether tpl.Execute could write the page
    resp        \* per request: the HTTP response, status 0 while there is none

vars == <<serverUp, pc, query, dataAI, calls, in1, in2, retAI, retErr, wrote, resp>>

NoResp == [status |-> 0, body |-> NoPage]

Init ==
    /\ serverUp = TRUE
    /\ pc = [i \in Reqs |-> "idle"]
    /\ query = [i \in Reqs |-> <<>>]
    /\ dataAI = [i \in Reqs |-> NilPtr]
    /\ calls = [i \in Reqs |-> <<>>]
    /\ in1 = [i \in Reqs |-> NoReply]
    /\ in2 = [i \in Reqs |-> NoReply]
    /\ retAI = [i \in Reqs |-> NilPtr]
    /\ retErr = [i \in Reqs |-> NilErr]
    /\ wrote = [i \in Reqs |-> TRUE]
    /\ resp = [i \in Reqs |-> NoResp]

\* ---------------------------------------------------- fetchAIOverview ----
\* Fault variant: the error of the metadata decode is dropped.
FetchPrimaryMutIgnoreMetaErr(r) ==
    IF r.err # NilErr
    THEN [next |-> "return", ai |-> NilPtr, err |-> r.err, tok |-> ""]
    ELSE IF ~r.hasKey
    THEN [next |-> "return", ai |-> NilPtr, err |-> ErrNotFound, tok |-> ""]
    ELSE LET o == DecodeOverview(r.raw)
             m == DecodeMeta(r.raw)
         IN  IF o.err = NilErr /\ ~IsEmpty(o.val)
             THEN [next |-> "return", ai |-> PtrTo(o.val), err |-> NilErr, tok |-> ""]
             ELSE [next |-> "secondary", ai |-> NilPtr, err |-> NilErr,
                   tok |-> m.val.PageToken]

\* Lines 156-202, from the primary GetJSON's return to either a return or the
\* parameters of the secondary call.
FetchPrimary(r) ==
    IF r.err # NilErr
    THEN [next |-> "return", ai |-> NilPtr, err |-> r.err, tok |-> ""]
    ELSE IF ~r.hasKey
    THEN [next |-> "return", ai |-> NilPtr, err |-> ErrNotFound, tok |-> ""]
    ELSE LET o == DecodeOverview(r.raw)
             m == DecodeMeta(r.raw)
         IN  IF o.err = NilErr /\ ~IsEmpty(o.val)
             THEN [next |-> "return", ai |-> PtrTo(o.val), err |-> NilErr, tok |-> ""]
             ELSE IF m.err # NilErr
             THEN [next |-> "return", ai |-> NilPtr, err |-> m.err, tok |-> ""]
             ELSE [next |-> "secondary", ai |-> NilPtr, err |-> NilErr,
                   tok |-> m.val.PageToken]

\* Fault variant: an emptiness test on the second result too.
FetchSecondaryMutEmptyCheck(r) ==
    IF r.err # NilErr
    THEN [ai |-> NilPtr, err |-> r.err]
    ELSE LET o == DecodeOverview(r.raw)
         IN  IF o.err # NilErr
             THEN [ai |-> NilPtr, err |-> o.err]
             ELSE IF IsEmpty(o.val)
             THEN [ai |-> NilPtr, err |-> ErrNotFound]
             ELSE [ai |-> PtrTo(o.val), err |-> NilErr]

\* Fault variant: the decoded value returned together with the decode error.
FetchSecondaryMutReturnBoth(r) ==
    IF r.err # NilErr
    THEN [ai |-> NilPtr, err |-> r.err]
    ELSE LET o == DecodeOverview(r.raw)
         IN  [ai |-> PtrTo(o.val), err |-> o.err]

\* Lines 204-220, from the secondary GetJSON's return to the return.
FetchSecondary(r) ==
    IF r.err # NilErr
    THEN [ai |-> NilPtr, err |-> r.err]
    ELSE LET o == DecodeOverview(r.raw)
         IN  IF o.err # NilErr
             THEN [ai |-> NilPtr, err |-> o.err]
             ELSE [ai |-> PtrTo(o.val), err |-> NilErr]

\* ------------------------------------------------------------ actions ----
\* Lines 112-120 and 139-156: a request arrives; with a query the handler
\* calls fetchAIOverview, which issues the primary call, without one it goes
\* on to render.
Accept(i, q) ==
    /\ serverUp
    /\ pc[i] \in {"idle", "done", "aborted"}
    /\ query' = [query EXCEPT ![i] = q]
    /\ dataAI' = [dataAI EXCEPT ![i] = NilPtr]
    /\ calls' = [calls EXCEPT ![i] = IF q # <<>> THEN <<PrimaryCall(q)>> ELSE <<>>]
    /\ in1' = [in1 EXCEPT ![i] = NoReply]
    /\ in2' = [in2 EXCEPT ![i] = NoReply]
    /\ retAI' = [retAI EXCEPT ![i] = NilPtr]
    /\ retErr' = [retErr EXCEPT ![i] = NilErr]
    /\ wrote' = [wrote EXCEPT ![i] = TRUE]
    /\ resp' = [resp EXCEPT ![i] = NoResp]
    /\ pc' = [pc EXCEPT ![i] = IF q # <<>> THEN "primary" ELSE "render"]
    /\ UNCHANGED serverUp

\* Fault variant: a failed primary call is issued once more.
PrimaryReplyMutRetry(i, r) ==
    /\ serverUp
    /\ pc[i] = "primary"
    /\ in1' = [in1 EXCEPT ![i] = r]
    /\ LET s == FetchPrimary(r)
       IN  IF r.err # NilErr /\ Len(calls[i]) < 2
           THEN /\ calls' = [calls EXCEPT ![i] = Append(@, PrimaryCall(query[i]))]
                /\ UNCHANGED <<pc, retAI, retErr>>
           ELSE IF s.next = "secondary"
           THEN /\ calls' = [calls EXCEPT ![i] = Append(@, SecondaryCall(s.tok))]
                /\ pc' = [pc EXCEPT ![i] = "secondary"]
                /\ UNCHANGED <<retAI, retErr>>
           ELSE /\ retAI' = [retAI EXCEPT ![i] = s.ai]
                /\ retErr' = [retErr EXCEPT ![i] = s.err]
                /\ pc' = [pc EXCEPT ![i] = "returned"]
                /\ UNCHANGED calls
    /\ UNCHANGED <<serverUp, query, dataAI, in2, wrote, resp>>

\* Lines 156-204: the primary call returns r.
PrimaryReply(i, r) ==
    /\ serverUp
    /\ pc[i] = "primary"
    /\ in1' = [in1 EXCEPT ![i] = r]
    /\ LET s == FetchPrimary(r)
       IN  IF s.next = "secondary"
           THEN /\ calls' = [calls EXCEPT ![i] = Append(@, SecondaryCall(s.tok))]
                /\ pc' = [pc EXCEPT ![i] = "secondary"]
                /\ UNCHANGED <<retAI, retErr>>
           ELSE /\ retAI' = [retAI EXCEPT ![i] = s.ai]
                /\ retErr' = [retErr EXCEPT ![i] = s.err]
                /\ pc' = [pc EXCEPT ![i] = "returned"]
                /\ UNCHANGED calls
    /\ UNCHANGED <<serverUp, query, dataAI, in2, wrote, resp>>

\* Lines 204-220: the secondary call returns r.
SecondaryReply(i, r) ==
    /\ serverUp
    /\ pc[i] = "secondary"
    /\ in2' = [in2 EXCEPT ![i] = r]
    /\ LET s == FetchSecondary(r)
       IN  /\ retAI' = [retAI EXCEPT ![i] = s.ai]
           /\ retErr' = [retErr EXCEPT ![i] = s.err]
    /\ pc' = [pc EXCEPT ![i] = "returned"]
    /\ UNCHANGED <<serverUp, query, dataAI, calls, in1, wrote, resp>>

\* Fault variant: a fetch error ends the process (log.Fatal).
HandleFetchResultMutFatal(i) ==
    /\ pc[i] = "returned"
    /\ serverUp
    /\ IF retErr[i] # NilErr
       THEN /\ serverUp' = FALSE
            /\ pc' = [pc EXCEPT ![i] = "aborted"]
            /\ UNCHANGED dataAI
       ELSE /\ dataAI' = [dataAI EXCEPT ![i] = retAI[i]]
            /\ pc' = [pc EXCEPT ![i] = "render"]
            /\ UNCHANGED serverUp
    /\ UNCHANGED <<query, calls, in1, in2, retAI, retErr, wrote, resp>>

\* Lines 120-127: the handler takes fetchAIOverview's result.  On an error
\* it assigns data.AI.Error through data.AI, which is nil: the goroutine
\* panics, net/http recovers the panic of a handler, closes the connection
\* without a response and keeps serving.  If data.AI were not nil the error
\* text would be stored and the handler would go on to render.
HandleFetchResult(i) ==
    /\ serverUp
    /\ pc[i] = "returned"
    /\ IF retErr[i] # NilErr
       THEN IF dataAI[i].isNil
            THEN /\ pc' = [pc EXCEPT ![i] = "aborted"]
                 /\ UNCHANGED dataAI
            ELSE /\ dataAI' = [dataAI EXCEPT ![i].val.Error = retErr[i]]
                 /\ pc' = [pc EXCEPT ![i] = "render"]
       ELSE /\ dataAI' = [dataAI EXCEPT ![i] = retAI[i]]
            /\ pc' = [pc EXCEPT ![i] = "render"]
    /\ UNCHANGED <<serverUp, query, calls, in1, in2, retAI, retErr, wrote, resp>>

\* Lines 129-132: tpl.Execute writes the page (status 200); when it fails,
\* which for this template is a failed write to the client, the handler
\* answers http.Error 500.
Render(i, ok) ==
    /\ serverUp
    /\ pc[i] = "render"
    /\ wrote' = [wrote EXCEPT ![i] = ok]
    /\ resp' = [resp EXCEPT ![i] =
                  IF ok THEN [status |-> 200, body |-> RenderPage(query[i], dataAI[i])]
                  ELSE [status |-> 500, body |-> ErrorPage]]
    /\ pc' = [pc EXCEPT ![i] = "done"]
    /\ UNCHANGED <<serverUp, query, dataAI, calls, in1, in2, retAI, retErr>>

\* ------------------------------------------------------ specifications ---
\* One request after another, over every answer of Results.
Next ==
    \/ \E q \in Queries : Accept(1, q)
    \/ \E r \in Results : PrimaryReply(1, r)
    \/ \E r \in Results : SecondaryReply(1, r)
    \/ HandleFetchResult(1)
    \/ \E ok \in BOOLEAN : Render(1, ok)

Spec == Init /\ [][Next]_vars

\* Up to NumReqs requests in flight at once, their steps interleaved.
NextServer ==
    \/ \E i \in Reqs, q \in ServerQueries : Accept(i, q)
    \/ \E i \in Reqs, r \in ServerResults : PrimaryReply(i, r)
    \/ \E i \in Reqs, r \in ServerResults : SecondaryReply(i, r)
    \/ \E i \in Reqs : HandleFetchResult(i)
    \/ \E i \in Reqs, ok \in BOOLEAN : Render(i, ok)

SpecServer == Init /\ [][NextServer]_vars

\* The renderer on every overview of up to MaxBlocks blocks and MaxRefs
\* references: the request stands where a successful fetch leaves it (an
\* overview with content comes from the primary call, an empty one from the
\* secondary call), or where an empty query leaves it.
RenderOverviews ==
    {[TextBlocks |-> tb, References |-> rf, Error |-> ""] :
        tb \in SeqsUpTo(BlockVals, MaxBlocks), rf \in SeqsUpTo(RefVals, MaxRefs)}
AsPayload(o) == Object(Field(TRUE, o.TextBlocks), Field(TRUE, o.References),
                       Field(TRUE, o.Error), Field(TRUE, "tok1"), Field(TRUE, ""))

InitRender ==
    /\ serverUp = TRUE
    /\ wrote = [i \in Reqs |-> TRUE]
    /\ resp = [i \in Reqs |-> NoResp]
    /\ retErr = [i \in Reqs |-> NilErr]
    /\ \E q \in Queries, o \in RenderOverviews :
          /\ query = [i \in Reqs |-> IF i = 1 THEN q ELSE <<>>]
          /\ pc = [i \in Reqs |-> IF i = 1 THEN "render" ELSE "idle"]
          /\ IF q = <<>>
             THEN /\ o = ZeroOverview
                  /\ dataAI = [i \in Reqs |-> NilPtr]
                  /\ retAI = [i \in Reqs |-> NilPtr]
                  /\ calls = [i \in Reqs |-> <<>>]
                  /\ in1 = [i \in Reqs |-> NoReply]
                  /\ in2 = [i \in Reqs |-> NoReply]
             ELSE /\ dataAI = [i \in Reqs |-> IF i = 1 THEN PtrTo(o) ELSE NilPtr]
                  /\ retAI = [i \in Reqs |-> IF i = 1 THEN PtrTo(o) ELSE NilPtr]
                  /\ calls = [i \in Reqs |->
                                IF i # 1 THEN <<>>
                                ELSE IF IsEmpty(o)
                                THEN <<PrimaryCall(q), SecondaryCall("tok1")>>
                                ELSE <<PrimaryCall(q)>>]
                  /\ in1 = [i \in Reqs |->
                                IF i # 1 THEN NoReply
                                ELSE IF IsEmpty(o) THEN WithKey(TokenPayload)
                                ELSE WithKey(AsPayload(o))]
                  /\ in2 = [i \in Reqs |->
                                IF i = 1 /\ IsEmpty(o) THEN WithKey(AsPayload(o)) ELSE NoReply]

NextRender == \E ok \in BOOLEAN : Render(1, ok)

SpecRender == InitRender /\ [][NextRender]_vars

\* ================================================================ claims ==
Finished(i) == pc[i] \in {"done", "aborted"}
Fetched(i) == pc[i] \in {"returned", "aborted"} \/ (pc[i] \in {"render", "done"} /\ query[i] # <<>>)
GotPayload(r) == r.err = NilErr /\ r.hasKey
\* The payload decodes into AIOverview / SearchMetadata without a type error.
OverviewDecodes(p) ==
    p.shape = "null" \/ (p.shape = "object" /\ p.text_blocks.ok /\ p.references.ok /\ p.error.ok)
MetaDecodes(p) ==
    p.shape = "null" \/ (p.shape = "object" /\ p.page_token.ok /\ p.serpapi_link.ok)
HasContent(p) == Len(p.text_blocks.v) > 0 \/ Len(p.references.v) > 0
OverviewIn(p) == [TextBlocks |-> p.text_blocks.v, References |-> p.references.v,
                  Error |-> p.error.v]
\* Some node of the page carries msg as its text.
ShowsMessage(page, msg) == \E k \in 1..Len(page) : page[k].lit = msg
ShowsNoResultFor(page, q) ==
    \E k \in 1..Len(page) :
        /\ page[k].el = "p" /\ Len(page[k].kids) = 1
        /\ page[k].kids[1].lit = "No AI Overview found for: "
        /\ Unescape(page[k].kids[1].text) = q

\* C1: every request with a non-empty query whose fetch fails still ends in
\* a 200 response whose page shows the error's message.
C1_FetchFailureStillRenders ==
    \A i \in Reqs :
        (query[i] # <<>> /\ Finished(i) /\ retErr[i] # NilErr)
            => (resp[i].status = 200 /\ ShowsMessage(resp[i].body, retErr[i]))

\* C2: when the primary response has no "ai_overview" key, the fetch fails
\* with the not-found error after the primary call alone, and the page of
\* that request shows "No AI Overview found for: q" with exactly q.
C2_NotFoundPage ==
    \A i \in Reqs :
        (query[i] # <<>> /\ in1[i] = NoKey)
            => /\ Len(calls[i]) = 1
               /\ retErr[i] = ErrNotFound /\ retAI[i].isNil
               /\ Finished(i) => (resp[i].status = 200
                                  /\ ShowsNoResultFor(resp[i].body, query[i]))

\* C3: when the primary "ai_overview" decodes without error into an overview
\* with a text block or a reference, fetchAIOverview returns that overview
\* and the request never issues the secondary call.
C3_InlineOverviewReturned ==
    \A i \in Reqs :
        (GotPayload(in1[i]) /\ OverviewDecodes(in1[i].raw) /\ HasContent(in1[i].raw))
            => /\ retErr[i] = NilErr
               /\ retAI[i] = PtrTo(OverviewIn(in1[i].raw))
               /\ calls[i] = <<PrimaryCall(query[i])>>
               /\ in2[i] = NoReply

C3_Witness ==
    /\ pc[1] = "returned" /\ GotPayload(in1[1]) /\ OverviewDecodes(in1[1].raw)
    /\ Len(in1[1].raw.text_blocks.v) > 0 /\ Len(in1[1].raw.references.v) = 0
    /\ ~retAI[1].isNil

\* The second half of C4, shared by the claim as written and as amended: one
\* secondary call with the engine and the token of the primary payload, and
\* its decoded overview returned as it is.
SecondCallAndResult(i) ==
    /\ Len(calls[i]) = 2
    /\ calls[i][2].engine = "google_ai_overview"
    /\ calls[i][2].page_token = in1[i].raw.page_token.v
    /\ (Fetched(i) /\ in2[i].err = NilErr /\ OverviewDecodes(in2[i].raw))
          => (retErr[i] = NilErr /\ retAI[i] = PtrTo(OverviewIn(in2[i].raw)))

\* C4 as written: whenever the primary "ai_overview" decodes to an empty
\* overview, exactly one secondary call is issued, with engine
\* "google_ai_overview" and the payload's token, and its decoded overview is
\* the result, empty or not.
C4_EmptyOverviewAlwaysSecondCall ==
    \A i \in Reqs :
        (GotPayload(in1[i]) /\ OverviewDecodes(in1[i].raw) /\ ~HasContent(in1[i].raw))
            => SecondCallAndResult(i)

\* C4 amended: the same, for a payload whose continuation-token metadata
\* decodes as well.
C4_EmptyOverviewSecondCall ==
    \A i \in Reqs :
        (GotPayload(in1[i]) /\ OverviewDecodes(in1[i].raw) /\ ~HasContent(in1[i].raw)
         /\ MetaDecodes(in1[i].raw))
            => SecondCallAndResult(i)

C4_Witness ==
    /\ pc[1] = "returned" /\ GotPayload(in1[1]) /\ in1[1].raw.shape = "object"
    /\ OverviewDecodes(in1[1].raw) /\ ~HasContent(in1[1].raw)
    /\ in1[1].raw.page_token.v = "tok1"
    /\ Len(calls[1]) = 2 /\ calls[1][2].page_token = "tok1"
    /\ GotPayload(in2[1]) /\ OverviewDecodes(in2[1].raw) /\ ~HasContent(in2[1].raw)
    /\ retAI[1] = PtrTo(ZeroOverview) /\ retErr[1] = NilErr

\* C5: a payload that fails the first decode/emptiness check and whose
\* metadata cannot be decoded makes the fetch fail with the decode error and
\* no secondary call; a secondary call is issued only after the metadata of
\* the primary payload decoded.
C5_MetaDecodeGate ==
    \A i \in Reqs :
        /\ (GotPayload(in1[i]) /\ ~MetaDecodes(in1[i].raw)
            /\ ~(OverviewDecodes(in1[i].raw) /\ HasContent(in1[i].raw)))
              => (retErr[i] = ErrUnmarshal /\ retAI[i].isNil /\ Len(calls[i]) = 1
                  /\ in2[i] = NoReply)
        /\ (Len(calls[i]) > 1 \/ in2[i] # NoReply \/ pc[i] = "secondary")
              => (GotPayload(in1[i]) /\ MetaDecodes(in1[i].raw))

C5_Witness ==
    /\ pc[1] = "returned" /\ GotPayload(in1[1]) /\ in1[1].raw.shape = "object"
    /\ OverviewDecodes(in1[1].raw) /\ ~HasContent(in1[1].raw)
    /\ ~in1[1].raw.page_token.ok
    /\ retErr[1] = ErrUnmarshal

\* C6: a request issues at most the primary call and then the secondary
\* call, each once; a call that fails at the transport/API level ends the
\* fetch with that error and no further call.
C6_CallDiscipline ==
    \A i \in Reqs :
        /\ Len(calls[i]) <= 2
        /\ Len(calls[i]) >= 1 => calls[i][1] = PrimaryCall(query[i])
        /\ Len(calls[i]) = 2 => calls[i][2].engine = "google_ai_overview"
        /\ in1[i].err \in TransportErrs
              => (Len(calls[i]) = 1 /\ Fetched(i) /\ retErr[i] = in1[i].err /\ retAI[i].isNil)
        /\ in2[i].err \in TransportErrs
              => (Len(calls[i]) = 2 /\ Fetched(i) /\ retErr[i] = in2[i].err /\ retAI[i].isNil)

C6_Witness ==
    /\ pc[1] = "returned" /\ Len(calls[1]) = 2
    /\ in2[1].err \in TransportErrs /\ retErr[1] = in2[1].err

\* C7: a request without a query issues no external call, and the page it
\* renders holds the form and neither the "No AI Overview found" message nor
\* any overview content.
C7_EmptyQueryFormOnly ==
    \A i \in Reqs :
        (query[i] = <<>>)
            => /\ calls[i] = <<>> /\ in1[i] = NoReply /\ in2[i] = NoReply
               /\ pc[i] \in {"idle", "render", "done"}
               /\ pc[i] = "done"
                    => \/ resp[i].status = 500 /\ ~wrote[i]
                       \/ /\ resp[i].status = 200
                          /\ \E k \in 1..Len(resp[i].body) : resp[i].body[k].el = "form"
                          /\ \A k \in 1..Len(resp[i].body) :
                                resp[i].body[k].el \in {"h1", "form"}

C7_Witness == pc[1] = "done" /\ query[1] = <<>> /\ resp[1].status = 200

\* What one request's answer is as a function of its own query, its own API
\* answers and its own write outcome.
OutcomeOf(q, r1, r2, w) ==
    LET f == FetchPrimary(r1)
        g == IF f.next = "secondary" THEN FetchSecondary(r2) ELSE [ai |-> f.ai, err |-> f.err]
        ai == IF q = <<>> THEN NilPtr ELSE g.ai
    IN  IF q # <<>> /\ g.err # NilErr THEN NoResp
        ELSE IF w THEN [status |-> 200, body |-> RenderPage(q, ai)]
        ELSE [status |-> 500, body |-> ErrorPage]

\* C8: no failure of a request (fetch error, rendering error, panic in the
\* handler) stops the server, and with requests in flight together each
\* finished request's answer is the one its own query and its own API
\* answers give.
C8_RequestsIndependent ==
    /\ serverUp
    /\ \A i \in Reqs :
          Finished(i) => resp[i] = OutcomeOf(query[i], in1[i], in2[i], wrote[i])
    /\ \A i \in Reqs : (pc[i] = "aborted") = (Finished(i) /\ retErr[i] # NilErr)

C8_Witness ==
    /\ pc[1] = "aborted" /\ retErr[1] = ErrUnmarshal
    /\ pc[2] = "done" /\ resp[2].status = 200 /\ Len(calls[2]) = 2
    /\ serverUp

\* Inverses of the renderer's conversions, for reading a page back.
PercentCodes == {" ", "<", ">", "\""}
RECURSIVE URLDecode(_)
URLDecode(s) ==
    IF s = <<>> THEN <<>>
    ELSE IF \E c \in PercentCodes : StartsWith(s, NormalizeChar(c))
    THEN LET c == CHOOSE x \in PercentCodes : StartsWith(s, NormalizeChar(x))
         IN  <<c>> \o URLDecode(SubSeq(s, 4, Len(s)))
    ELSE <<Head(s)>> \o URLDecode(Tail(s))
RECURSIVE ParseNat(_)
ParseNat(s) == IF s = <<>> THEN 0
               ELSE 10 * ParseNat(SubSeq(s, 1, Len(s) - 1)) + (IndexIn(s[Len(s)], DigitChars) - 1)
ParseInt(s) == IF s # <<>> /\ s[1] = "-" THEN 0 - ParseNat(Tail(s)) ELSE ParseNat(s)
IsDecimal(s) == s # <<>> /\ \A k \in 1..Len(s) : s[k] \in Range(DigitChars) \/ (k = 1 /\ s[k] = "-")

\* The target a browser follows for the href of a page.
HrefTarget(a) == URLDecode(Unescape(a.href))

ShowsBlock(node, b) ==
    /\ node.el = "div" /\ node.class = "text-block"
    /\ Len(node.kids) = (IF Len(b.List) > 0 THEN 3 ELSE 2)
    /\ node.kids[1].el = "strong"
    /\ node.kids[2].el = "p" /\ Unescape(node.kids[2].text) = b.Snippet
    /\ Len(b.List) > 0 =>
          /\ Len(node.kids[3].kids) = Len(b.List)
          /\ \A k \in 1..Len(b.List) :
                Unescape(node.kids[3].kids[k].text) = b.List[k].Snippet

\* A reference entry: title as a hyperlink, then snippet, source and index.
ShowsRefText(node, r) ==
    /\ node.el = "div" /\ node.class = "text-block"
    /\ Len(node.kids) = 4
    /\ node.kids[1].el = "strong" /\ Len(node.kids[1].kids) = 1
    /\ node.kids[1].kids[1].el = "a"
    /\ Unescape(node.kids[1].kids[1].text) = r.Title
    /\ node.kids[2].lit = "Snippet: " /\ Unescape(node.kids[2].text) = r.Snippet
    /\ node.kids[3].lit = "Source: " /\ Unescape(node.kids[3].text) = r.Source
    /\ node.kids[4].lit = "Index: " /\ IsDecimal(node.kids[4].text)
    /\ ParseInt(node.kids[4].text) = r.Index

\* The page of an overview: after the heading and the form, the result
\* heading, one .text-block per block in order, the one references heading,
\* and one entry per reference in order.
PageLayout(page, o) ==
    LET n == Len(o.TextBlocks)
        m == Len(o.References)
    IN  /\ Len(page) = n + m + 4
        /\ Cardinality({k \in 1..Len(page) : page[k].el = "h2" /\ page[k].lit = "References"}) = 1
        /\ page[n + 4].el = "h2" /\ page[n + 4].lit = "References"
        /\ \A k \in 1..n : ShowsBlock(page[3 + k], o.TextBlocks[k])
        /\ \A k \in 1..m : ShowsRefText(page[n + 4 + k], o.References[k])

Rendered(i) == pc[i] = "done" /\ resp[i].status = 200 /\ ~dataAI[i].isNil

\* C9 as written: the page of an overview with n blocks and m references has
\* n .text-block elements for the blocks in order, one references heading and
\* m reference entries in order, each with the title as a hyperlink to the
\* reference's link, then snippet, source and index.
C9_EveryTitleLinksToItsLink ==
    \A i \in Reqs :
        Rendered(i) =>
            /\ PageLayout(resp[i].body, dataAI[i].val)
            /\ \A k \in 1..Len(dataAI[i].val.References) :
                  HrefTarget(resp[i].body[Len(dataAI[i].val.TextBlocks) + 4 + k].kids[1].kids[1])
                    = dataAI[i].val.References[k].Link

\* C9 amended: the same, the hyperlink leading to the reference's link when
\* the link has no scheme or the scheme http, https or mailto, and to
\* "#ZgotmplZ" when it has any other scheme.
C9_PageOfOverview ==
    \A i \in Reqs :
        Rendered(i) =>
            /\ PageLayout(resp[i].body, dataAI[i].val)
            /\ \A k \in 1..Len(dataAI[i].val.References) :
                  HrefTarget(resp[i].body[Len(dataAI[i].val.TextBlocks) + 4 + k].kids[1].kids[1])
                    = IF IsSafeURL(dataAI[i].val.References[k].Link)
                      THEN dataAI[i].val.References[k].Link
                      ELSE ZgotmplZ

C9_Witness ==
    /\ Rendered(1)
    /\ Len(dataAI[1].val.TextBlocks) = 2 /\ Len(dataAI[1].val.References) = 3
    /\ dataAI[1].val.References = <<Ref3, Ref2, Ref1>>
    /\ dataAI[1].val.TextBlocks = <<Block2, Block1>>

\* C10: fetchAIOverview returns either an overview or an error, never both
\* and never neither, so data.AI is nil when a fetch error is handled and is
\* set only from a successful fetch.
C10_ResultXorError ==
    \A i \in Reqs :
        /\ Fetched(i) => (retAI[i].isNil = (retErr[i] # NilErr))
        /\ (pc[i] \in {"returned", "aborted"} /\ retErr[i] # NilErr) => dataAI[i].isNil
        /\ ~dataAI[i].isNil => (Fetched(i) /\ retErr[i] = NilErr /\ dataAI[i] = retAI[i])

C10_Witness ==
    /\ pc[1] = "aborted" /\ in2[1] # NoReply /\ retErr[1] = ErrUnmarshal
    /\ retAI[1].isNil /\ dataAI[1].isNil

====
